---- MODULE Spec2Model ----
(***************************************************************************)
(* Model of the plismun application pipeline: the zod request validator    *)
(* (utils/middlewares validate), the DelegateApply schema and its          *)
(* reference refinement (utils/validators/forms.ts) and the PUT handler of *)
(* the delegate application endpoint (db.appliedUser).                     *)
(***************************************************************************)
EXTENDS Integers, Sequences, FiniteSets, TLC

VARIABLES
  appliedUser,  \* the db.appliedUser table: the records created so far, in order
  reqs,         \* the PUT requests: each request's position and what it has seen
  vreq,         \* one call of a validate({body, query}) middleware
  rcall,        \* one call of the function refineDelegateApply(params) returns
  pcall,        \* one call of a schema's parse (safeParse, safeParseAsync)
  form          \* the delegate application form: the values formik holds

vars == <<appliedUser, reqs, vreq, rcall, pcall, form>>

----------------------------------------------------------------------------
(* Bounds of the model *)

\* how many PUT requests are in flight or answered
NumRequests == 2
\* the longest committee-country list a refinement call is given
MaxRows == 2
\* the raw values a validated part may hold are 0..MaxRaw
MaxRaw == 1
\* how many fields of the base body a parsed input changes or drops
MaxDeviations == 2
\* how many committees the application form offers
NumCommittees == 3
\* how many times the application form is submitted
MaxSubmissions == 2

----------------------------------------------------------------------------
(* JSON values.  A field whose TypeScript type is a union with null         *)
(* (delegationId, shirtSize) holds a tagged value; the other fields hold    *)
(* the number or string itself.  A missing key is a key outside DOMAIN.     *)

Null == [type |-> "null"]
Num(n) == [type |-> "number", value |-> n]
Str(s) == [type |-> "string", value |-> s]
Bool(b) == [type |-> "boolean", value |-> b]

\* the elements of a list
Range(s) == {s[i] : i \in 1..Len(s)}

\* the fields of the k-th choice, and their values in a body
SlotCommittee(body, k) ==
  CASE k = 1 -> body.choice1committee
    [] k = 2 -> body.choice2committee
    [] k = 3 -> body.choice3committee

SlotCountry(body, k) ==
  CASE k = 1 -> body.choice1country
    [] k = 2 -> body.choice2country
    [] k = 3 -> body.choice3country

CommitteePath(k) ==
  CASE k = 1 -> "choice1committee"
    [] k = 2 -> "choice2committee"
    [] k = 3 -> "choice3committee"

CountryPath(k) ==
  CASE k = 1 -> "choice1country"
    [] k = 2 -> "choice2country"
    [] k = 3 -> "choice3country"

----------------------------------------------------------------------------
(* The DelegateApply schema: z.object({...}) *)

DelegateFields ==
  <<"userId", "motivation", "experience", "delegationId",
    "choice1committee", "choice1country", "choice2committee", "choice2country",
    "choice3committee", "choice3country", "shirtSize">>

ShirtSizes == <<"XS", "S", "M", "L", "XL", "XXL">>

MotivationMax == 4000
MotivationMin == 10
CommitteeMin == 0
CountryMin == 2

Required(path) == <<[code |-> "invalid_type", path |-> path, message |-> "Required"]>>

\* z.number()
NumberField(raw, path) ==
  IF path \notin DOMAIN raw THEN Required(path) ELSE <<>>

\* a text field declared without its max check
TextFieldNoMax(raw, path, tooLong, tooShort) ==
  IF path \notin DOMAIN raw THEN Required(path)
  ELSE IF Len(raw[path]) < MotivationMin
    THEN <<[code |-> "too_small", path |-> path, message |-> tooShort]>>
  ELSE <<>>

\* z.string().max(4000, tooLong).min(10, tooShort): every check adds its issue
TextField(raw, path, tooLong, tooShort) ==
  IF path \notin DOMAIN raw THEN Required(path)
  ELSE (IF Len(raw[path]) > MotivationMax
          THEN <<[code |-> "too_big", path |-> path, message |-> tooLong]>>
          ELSE <<>>)
       \o
       (IF Len(raw[path]) < MotivationMin
          THEN <<[code |-> "too_small", path |-> path, message |-> tooShort]>>
          ELSE <<>>)

\* a preprocess step that keeps -1
DelegationPreprocessKept(val) == val

\* the preprocess step of delegationId: (val) => (val === -1 ? null : val)
DelegationPreprocess(val) == IF val = Num(-1) THEN Null ELSE val

\* delegationId declared as a number whose -1 is mapped after the check
DelegationFieldTransform(raw, path) ==
  IF path \notin DOMAIN raw THEN Required(path)
  ELSE IF raw[path].type = "number" THEN <<>>
  ELSE <<[code |-> "invalid_type", path |-> path,
          message |-> "Expected number, received null"]>>

\* z.preprocess(..., z.number().nullable())
DelegationField(raw, path) ==
  IF path \notin DOMAIN raw THEN Required(path)
  ELSE IF DelegationPreprocess(raw[path]).type \in {"null", "number"} THEN <<>>
  ELSE <<[code |-> "invalid_type", path |-> path,
          message |-> "Expected number, received string"]>>

\* z.number({...}).min(0, "Please choose a committee")
CommitteeField(raw, path) ==
  IF path \notin DOMAIN raw THEN Required(path)
  ELSE IF raw[path] < CommitteeMin
    THEN <<[code |-> "too_small", path |-> path,
            message |-> "Please choose a committee"]>>
  ELSE <<>>

\* z.string().min(2, "Please choose a country")
CountryField(raw, path) ==
  IF path \notin DOMAIN raw THEN Required(path)
  ELSE IF Len(raw[path]) < CountryMin
    THEN <<[code |-> "too_small", path |-> path,
            message |-> "Please choose a country"]>>
  ELSE <<>>

\* z.enum(["XS", ...]).nullable()
ShirtField(raw, path) ==
  IF path \notin DOMAIN raw THEN Required(path)
  ELSE IF raw[path] = Null \/ raw[path] \in {Str(s) : s \in Range(ShirtSizes)}
    THEN <<>>
  ELSE <<[code |-> "invalid_enum_value", path |-> path, options |-> ShirtSizes,
          message |-> "Invalid enum value"]>>

\* the issues of the object's fields, in the order of the schema's keys
DelegateApplyIssues(raw) ==
  NumberField(raw, "userId")
  \o TextField(raw, "motivation",
               "Your motivation is too long", "Please enter a short motivation")
  \o TextField(raw, "experience",
               "Your experience is too long", "Please enter a short experience")
  \o DelegationField(raw, "delegationId")
  \o CommitteeField(raw, "choice1committee")
  \o CountryField(raw, "choice1country")
  \o CommitteeField(raw, "choice2committee")
  \o CountryField(raw, "choice2country")
  \o CommitteeField(raw, "choice3committee")
  \o CountryField(raw, "choice3country")
  \o ShirtField(raw, "shirtSize")

\* the parsed output: the schema's keys only, delegationId preprocessed
DelegateApplyData(raw) ==
  [f \in Range(DelegateFields) |->
     IF f = "delegationId" THEN DelegationPreprocess(raw[f]) ELSE raw[f]]

\* a schema that also demands three different committees
DelegateApplyDistinct(raw) ==
  IF DelegateApplyIssues(raw) # <<>>
    THEN [success |-> FALSE, error |-> [issues |-> DelegateApplyIssues(raw)]]
  ELSE IF Cardinality({raw.choice1committee, raw.choice2committee,
                       raw.choice3committee}) < 3
    THEN [success |-> FALSE,
          error |-> [issues |-> <<[code |-> "custom", path |-> "choice2committee",
                                   message |-> "Committees must differ"]>>]]
  ELSE [success |-> TRUE, data |-> DelegateApplyData(raw)]

\* DelegateApply.safeParse(raw)
DelegateApply(raw) ==
  IF DelegateApplyIssues(raw) = <<>>
    THEN [success |-> TRUE, data |-> DelegateApplyData(raw)]
    ELSE [success |-> FALSE, error |-> [issues |-> DelegateApplyIssues(raw)]]

----------------------------------------------------------------------------
(* refineDelegateApply(params): the reference check of the three choices.  *)
(* A committee is [id |-> n]; a committee-country row is                    *)
(* [committeeId |-> n, country |-> s]; the other columns are never read.    *)

\* committees.find((c) => c.id === id), as the truth value the caller tests
CommitteeValid(committees, id) ==
  \E i \in 1..Len(committees) : committees[i].id = id

\* the issue added when the committee of a slot was not found
CommitteeIssue(committees, path) ==
  [code |-> "invalid_enum_value",
   options |-> [i \in 1..Len(committees) |-> committees[i].id],
   path |-> path,
   message |-> "The committee with the given ID was not found"]

\* committeeCountries.find((c) => c.committeeId === id && c.country === country)
ChoiceValid(committeeCountries, id, country) ==
  \E i \in 1..Len(committeeCountries) :
    committeeCountries[i].committeeId = id /\ committeeCountries[i].country = country

\* committeeCountries.filter((c) => c.committeeId === id): the rows of the
\* committee, in the order of the list
RowsOfCommittee(committeeCountries, id) ==
  LET F[i \in 0..Len(committeeCountries)] ==
        IF i = 0 THEN <<>>
        ELSE IF committeeCountries[i].committeeId = id
          THEN Append(F[i - 1], committeeCountries[i])
          ELSE F[i - 1]
  IN F[Len(committeeCountries)]

\* the country issue listing the countries of every committee
CountryIssueUnscoped(committeeCountries, id, path) ==
  [code |-> "invalid_enum_value",
   path |-> path,
   message |-> "Invalid country and committee combination",
   options |-> [i \in 1..Len(committeeCountries) |-> committeeCountries[i].country]]

\* the issue added when the country of a slot is not one of its committee's
CountryIssue(committeeCountries, id, path) ==
  [code |-> "invalid_enum_value",
   path |-> path,
   message |-> "Invalid country and committee combination",
   options |-> [i \in 1..Len(RowsOfCommittee(committeeCountries, id)) |->
                  RowsOfCommittee(committeeCountries, id)[i].country]]

\* the country check without its committee guard
CountryMismatchUnguarded(choiceValid, committeeValid) == ~choiceValid

\* the test of the country check: if (!choiceNvalid && committeeNvalid)
CountryMismatch(choiceValid, committeeValid) == ~choiceValid /\ committeeValid

\* the refinement with the second slot's country check guarded by the first
\* slot's committee (a slip in the repeated block)
RefineDelegateApplySlip(params, body) ==
  LET committees == params.committees
      committeeCountries == params.committeeCountries
      committee1valid == CommitteeValid(committees, body.choice1committee)
      committee2valid == CommitteeValid(committees, body.choice2committee)
      committee3valid == CommitteeValid(committees, body.choice3committee)
      choice1valid == ChoiceValid(committeeCountries, body.choice1committee,
                                  body.choice1country)
      choice2valid == ChoiceValid(committeeCountries, body.choice2committee,
                                  body.choice2country)
      choice3valid == ChoiceValid(committeeCountries, body.choice3committee,
                                  body.choice3country)
  IN (IF ~committee1valid
        THEN <<CommitteeIssue(committees, "choice1committee")>> ELSE <<>>)
     \o (IF ~committee2valid
           THEN <<CommitteeIssue(committees, "choice2committee")>> ELSE <<>>)
     \o (IF ~committee3valid
           THEN <<CommitteeIssue(committees, "choice3committee")>> ELSE <<>>)
     \o (IF CountryMismatch(choice1valid, committee1valid)
           THEN <<CountryIssue(committeeCountries, body.choice1committee,
                               "choice1country")>>
           ELSE <<>>)
     \o (IF CountryMismatch(choice2valid, committee1valid)
           THEN <<CountryIssue(committeeCountries, body.choice2committee,
                               "choice2country")>>
           ELSE <<>>)
     \o (IF CountryMismatch(choice3valid, committee3valid)
           THEN <<CountryIssue(committeeCountries, body.choice3committee,
                               "choice3country")>>
           ELSE <<>>)

\* the issues ctx.addIssue receives, in the order the function adds them
RefineDelegateApply(params, body) ==
  LET committees == params.committees
      committeeCountries == params.committeeCountries
      committee1valid == CommitteeValid(committees, body.choice1committee)
      committee2valid == CommitteeValid(committees, body.choice2committee)
      committee3valid == CommitteeValid(committees, body.choice3committee)
      choice1valid == ChoiceValid(committeeCountries, body.choice1committee,
                                  body.choice1country)
      choice2valid == ChoiceValid(committeeCountries, body.choice2committee,
                                  body.choice2country)
      choice3valid == ChoiceValid(committeeCountries, body.choice3committee,
                                  body.choice3country)
  IN (IF ~committee1valid
        THEN <<CommitteeIssue(committees, "choice1committee")>> ELSE <<>>)
     \o (IF ~committee2valid
           THEN <<CommitteeIssue(committees, "choice2committee")>> ELSE <<>>)
     \o (IF ~committee3valid
           THEN <<CommitteeIssue(committees, "choice3committee")>> ELSE <<>>)
     \o (IF CountryMismatch(choice1valid, committee1valid)
           THEN <<CountryIssue(committeeCountries, body.choice1committee,
                               "choice1country")>>
           ELSE <<>>)
     \o (IF CountryMismatch(choice2valid, committee2valid)
           THEN <<CountryIssue(committeeCountries, body.choice2committee,
                               "choice2country")>>
           ELSE <<>>)
     \o (IF CountryMismatch(choice3valid, committee3valid)
           THEN <<CountryIssue(committeeCountries, body.choice3committee,
                               "choice3country")>>
           ELSE <<>>)

----------------------------------------------------------------------------
(* refineChairApply(params): the function it returns.  A ChairApply body has *)
(* the three committee choices and no country.                               *)

\* the refinement without the check of the third choice
RefineChairApplyTwoSlots(params, body) ==
  (IF ~CommitteeValid(params.committees, body.choice1committee)
     THEN <<CommitteeIssue(params.committees, "choice1committee")>> ELSE <<>>)
  \o (IF ~CommitteeValid(params.committees, body.choice2committee)
        THEN <<CommitteeIssue(params.committees, "choice2committee")>> ELSE <<>>)

\* the issues ctx.addIssue receives, in the order the function adds them
RefineChairApply(params, body) ==
  LET committees == params.committees
      committee1valid == CommitteeValid(committees, body.choice1committee)
      committee2valid == CommitteeValid(committees, body.choice2committee)
      committee3valid == CommitteeValid(committees, body.choice3committee)
  IN (IF ~committee1valid
        THEN <<CommitteeIssue(committees, "choice1committee")>> ELSE <<>>)
     \o (IF ~committee2valid
           THEN <<CommitteeIssue(committees, "choice2committee")>> ELSE <<>>)
     \o (IF ~committee3valid
           THEN <<CommitteeIssue(committees, "choice3committee")>> ELSE <<>>)

----------------------------------------------------------------------------
(* The reference data of a refinement: a snapshot, or a zero-argument async *)
(* function.  A function is modelled by what its successive calls return:    *)
(* [returns |-> <<first, second, ...>>]; fetched counts the calls made.      *)

\* typeof params === "function"
IsFunction(params) == "returns" \in DOMAIN params

\* a resolution that calls the function a second time and takes that result
ResolveParamsTwice(params, fetched) ==
  IF IsFunction(params)
    THEN [snapshot |-> params.returns[fetched + 2], fetched |-> fetched + 2]
    ELSE [snapshot |-> params, fetched |-> fetched]

\* typeof params === "function" ? await params() : params
ResolveParams(params, fetched) ==
  IF IsFunction(params)
    THEN [snapshot |-> params.returns[fetched + 1], fetched |-> fetched + 1]
    ELSE [snapshot |-> params, fetched |-> fetched]

\* one call of the function refineDelegateApply(params) returns
RefineDelegateApplyCall(params, fetched, body) ==
  [issues |-> RefineDelegateApply(ResolveParams(params, fetched).snapshot, body),
   fetched |-> ResolveParams(params, fetched).fetched]

\* one call of the function refineChairApply(params) returns
RefineChairApplyCall(params, fetched, body) ==
  [issues |-> RefineChairApply(ResolveParams(params, fetched).snapshot, body),
   fetched |-> ResolveParams(params, fetched).fetched]

----------------------------------------------------------------------------
(* DelegateApply.superRefine(refineDelegateApply(params)).safeParseAsync(v): *)
(* the parse the form's validate function runs.  zod runs the refinement of  *)
(* an object unless a field aborted the parse: a wrong or missing type and   *)
(* an enum mismatch abort, a failed min or max check only marks the value.   *)

\* the issue makes zod return INVALID for its field
Aborts(issue) == issue.code \in {"invalid_type", "invalid_enum_value"}

Aborted(issues) == \E i \in 1..Len(issues) : Aborts(issues[i])

DelegateApplyRefined(params, raw) ==
  IF Aborted(DelegateApplyIssues(raw))
    THEN [success |-> FALSE, error |-> [issues |-> DelegateApplyIssues(raw)]]
  ELSE IF DelegateApplyIssues(raw)
            \o RefineDelegateApply(params, DelegateApplyData(raw)) = <<>>
    THEN [success |-> TRUE, data |-> DelegateApplyData(raw)]
  ELSE [success |-> FALSE,
        error |-> [issues |-> DelegateApplyIssues(raw)
                                \o RefineDelegateApply(params, DelegateApplyData(raw))]]

----------------------------------------------------------------------------
(* SignupSchema: z.object({...}).superRefine(...).  The model keeps the     *)
(* password, its confirmation and the two names; email, phone, birthdate,   *)
(* nationality, schoolname, dietary and otherInfo are held valid.           *)

SignupFields == <<"password", "passwordConfirm", "firstname", "lastname">>

PasswordMin == 8
NameMin == 1

\* z.string().min(n, message); z.string() is the case n = 0
MinField(raw, path, min, message) ==
  IF path \notin DOMAIN raw THEN Required(path)
  ELSE IF Len(raw[path]) < min
    THEN <<[code |-> "too_small", path |-> path, message |-> message]>>
  ELSE <<>>

\* the issues of the object's fields, in the order of the schema's keys
SignupIssues(raw) ==
  MinField(raw, "password", PasswordMin, "Password must be at least 8 characters")
  \o MinField(raw, "passwordConfirm", 0, "")
  \o MinField(raw, "firstname", NameMin, "Please enter first name")
  \o MinField(raw, "lastname", NameMin, "Please enter last name")

\* a refinement that attaches the mismatch to the password
SignupRefineOnPassword(data) ==
  IF data.password # data.passwordConfirm
    THEN <<[code |-> "custom", path |-> "password",
            message |-> "Passwords do not match"]>>
    ELSE <<>>

\* the superRefine callback
SignupRefine(data) ==
  IF data.password # data.passwordConfirm
    THEN <<[code |-> "custom", path |-> "passwordConfirm",
            message |-> "Passwords do not match"]>>
    ELSE <<>>

\* SignupSchema.safeParse(raw)
SignupSchema(raw) ==
  IF Aborted(SignupIssues(raw))
    THEN [success |-> FALSE, error |-> [issues |-> SignupIssues(raw)]]
  ELSE IF SignupIssues(raw) \o SignupRefine(raw) = <<>>
    THEN [success |-> TRUE, data |-> [f \in Range(SignupFields) |-> raw[f]]]
  ELSE [success |-> FALSE,
        error |-> [issues |-> SignupIssues(raw) \o SignupRefine(raw)]]

----------------------------------------------------------------------------
(* validate({body, query}): the request validator middleware.               *)
(* A schema is [kind |-> "DelegateApply"], or [kind |-> "accepts",          *)
(* accepts |-> S]: a schema that accepts exactly the values of S.  A        *)
(* parameter that is not supplied is NoSchema (undefined).                  *)

NoSchema == [kind |-> "undefined"]

DelegateApplySchema == [kind |-> "DelegateApply"]

\* schema.safeParse(raw)
SafeParse(schema, raw) ==
  IF schema.kind = "DelegateApply" THEN DelegateApply(raw)
  ELSE IF raw \in schema.accepts
    THEN [success |-> TRUE, data |-> raw]
    ELSE [success |-> FALSE,
          error |-> [issues |-> <<[code |-> "custom", received |-> raw,
                                   accepts |-> schema.accepts]>>]]

\* the errors array after the part's block: if (schema) { parse; push on failure }
PushErrors(errors, schema, raw) ==
  IF schema # NoSchema /\ ~SafeParse(schema, raw).success
    THEN Append(errors, SafeParse(schema, raw).error)
    ELSE errors

\* validate with the query block skipped once the body has failed
ValidateFailFast(cfg, req) ==
  LET bodyErrors == PushErrors(<<>>, cfg.body, req.body)
      errors == IF bodyErrors # <<>> THEN bodyErrors
                ELSE PushErrors(bodyErrors, cfg.query, req.query)
  IN IF Len(errors) > 0
       THEN [req |-> req, nextCalls |-> 0,
             responses |-> <<[status |-> 422,
                              json |-> [statusCode |-> 422,
                                        message |-> "Bad Request",
                                        description |-> errors]]>>]
       ELSE [req |-> req, nextCalls |-> 1, responses |-> <<>>]

\* validate without the return in front of the 422 response
ValidateFallThrough(cfg, req) ==
  LET errors == PushErrors(PushErrors(<<>>, cfg.body, req.body),
                           cfg.query, req.query)
  IN [req |-> req, nextCalls |-> 1,
      responses |-> IF Len(errors) > 0
                      THEN <<[status |-> 422,
                              json |-> [statusCode |-> 422,
                                        message |-> "Bad Request",
                                        description |-> errors]]>>
                      ELSE <<>>]

\* the middleware validate(cfg) returns, run on a request: what it leaves in
\* req, how often it calls next, and the responses it sends.  It parses with
\* safeParse whatever cfg.async says, and assigns nothing to req.
Validate(cfg, req) ==
  LET errors == PushErrors(PushErrors(<<>>, cfg.body, req.body),
                           cfg.query, req.query)
  IN IF Len(errors) > 0
       THEN [req |-> req, nextCalls |-> 0,
             responses |-> <<[status |-> 422,
                              json |-> [statusCode |-> 422,
                                        message |-> "Bad Request",
                                        description |-> errors]]>>]
       ELSE [req |-> req, nextCalls |-> 1, responses |-> <<>>]

----------------------------------------------------------------------------
(* Sample data *)

\* a body every field of which satisfies its shape constraint
BaseBody ==
  [userId |-> 1,
   motivation |-> "I want to debate",
   experience |-> "Two conferences",
   delegationId |-> Null,
   choice1committee |-> 0, choice1country |-> "US",
   choice2committee |-> 0, choice2country |-> "FR",
   choice3committee |-> 1, choice3country |-> "DE",
   shirtSize |-> Null]

\* the committee and committee-country tables of the database
DbCommittees == <<[id |-> 0], [id |-> 1]>>

DbCommitteeCountries ==
  <<[committeeId |-> 0, country |-> "US"],
    [committeeId |-> 0, country |-> "FR"],
    [committeeId |-> 1, country |-> "DE"]>>

\* the ids of the users that log in
UserIds == {1, 2}

\* what authAPI leaves in the request: a populated request carries its user
Auths ==
  {[populated |-> FALSE]}
    \cup {[populated |-> TRUE, user |-> [id |-> u]] : u \in UserIds}

\* the bodies PUT requests carry: the base body, and the base body with a
\* delegation id of -1, with another user's id, with a committee the table
\* lacks, with a country its committee lacks, with an unchosen committee, and
\* with another user's id and a payment status of its own
PutBodies ==
  {BaseBody,
   ("paymentStatus" :> "paid") @@ [BaseBody EXCEPT !.userId = 2],
   [BaseBody EXCEPT !.delegationId = Num(-1)],
   [BaseBody EXCEPT !.userId = 2],
   [BaseBody EXCEPT !.choice1committee = 5],
   [BaseBody EXCEPT !.choice3country = "ZZ"],
   [BaseBody EXCEPT !.choice2committee = -1]}

\* the committee ids and countries refinement calls are tried on
SampleCommitteeIds == {0, 1}
SampleCountries == {"US", "FR"}

\* lists of committees with distinct ids (id is the table's key)
CommitteeLists ==
  {s \in UNION {[1..n -> {[id |-> i] : i \in SampleCommitteeIds}] :
                  n \in 0..Cardinality(SampleCommitteeIds)} :
     \A i, j \in 1..Len(s) : i # j => s[i] # s[j]}

\* lists of committee-country rows
RowLists ==
  UNION {[1..n -> [committeeId : SampleCommitteeIds, country : SampleCountries]] :
           n \in 0..MaxRows}

\* bodies that differ in their three choices only
ChoiceBodies ==
  {[BaseBody EXCEPT !.choice1committee = c[1], !.choice1country = k[1],
                    !.choice2committee = c[2], !.choice2country = k[2],
                    !.choice3committee = c[3], !.choice3country = k[3]] :
     c \in [1..3 -> SampleCommitteeIds], k \in [1..3 -> SampleCountries]}

\* the body of a chair application with the committee choices of a body
ChairBody(body) ==
  [f \in DOMAIN body \ {"choice1country", "choice2country", "choice3country"} |->
     body[f]]

\* the snapshots a provider function is tried on
ProviderSnapshots ==
  [committees : CommitteeLists, committeeCountries : {DbCommitteeCountries, <<>>}]

\* the validation calls made with one provider function
ProviderCalls == {"delegate", "chair"}

\* provider functions: what each of their calls returns, in order
Providers ==
  {[returns |-> r] : r \in [1..Cardinality(ProviderCalls) -> ProviderSnapshots]}

\* a text of n characters
RECURSIVE Repeat(_, _)
Repeat(s, n) ==
  IF n = 0 THEN ""
  ELSE IF n % 2 = 0 THEN Repeat(s \o s, n \div 2)
  ELSE s \o Repeat(s, n - 1)

Text(n) == Repeat("x", n)

\* one change of a body: a field dropped, or set to a value at or beyond a
\* bound of its constraint
Deviations ==
  {[field |-> f, kind |-> "missing"] : f \in Range(DelegateFields)}
  \cup {[field |-> f, kind |-> k] :
          f \in {"motivation", "experience"},
          k \in {"below min", "min", "max", "above max"}}
  \cup {[field |-> "delegationId", kind |-> k] : k \in {"none", "some"}}
  \cup {[field |-> f, kind |-> "below min"] :
          f \in {"choice1committee", "choice2committee", "choice3committee"}}
  \cup {[field |-> f, kind |-> k] :
          f \in {"choice1country", "choice2country", "choice3country"},
          k \in {"empty", "below min"}}
  \cup {[field |-> "shirtSize", kind |-> k] : k \in {"listed", "unlisted"}}

\* the value a change gives its field
DeviationValue(change) ==
  IF change.field \in {"motivation", "experience"}
    THEN Text(CASE change.kind = "below min" -> MotivationMin - 1
                [] change.kind = "min" -> MotivationMin
                [] change.kind = "max" -> MotivationMax
                [] OTHER -> MotivationMax + 1)
  ELSE IF change.field = "delegationId"
    THEN (IF change.kind = "none" THEN Num(-1) ELSE Num(3))
  ELSE IF change.field \in {"choice1committee", "choice2committee", "choice3committee"}
    THEN CommitteeMin - 1
  ELSE IF change.field = "shirtSize"
    THEN (IF change.kind = "listed" THEN Str("M") ELSE Str("XXXL"))
  ELSE IF change.kind = "empty" THEN "" ELSE Text(CountryMin - 1)

\* a body after a list of changes, applied in order
RECURSIVE Deviate(_, _)
Deviate(body, changes) ==
  IF changes = <<>> THEN body
  ELSE Deviate(IF Head(changes).kind = "missing"
                 THEN [f \in DOMAIN body \ {Head(changes).field} |-> body[f]]
                 ELSE (Head(changes).field :> DeviationValue(Head(changes))) @@ body,
               Tail(changes))

\* the base body with up to MaxDeviations changes
ShapeBodies ==
  {Deviate(BaseBody, changes) :
     changes \in UNION {[1..n -> Deviations] : n \in 0..MaxDeviations}}

\* bodies of correct shape: any three choices, any delegation
TypedBodies ==
  {[b EXCEPT !.delegationId = d] : b \in ChoiceBodies, d \in {Null, Num(-1), Num(3)}}

\* passwords below, at and above the minimum length, two of each length
SamplePasswords ==
  {"", "abc", "abd", "1234567", "7654321", "12345678", "87654321",
   "longenough1", "different1"}

\* signups with every field, and signups that lack the confirmation
SignupBodies ==
  [password : SamplePasswords, passwordConfirm : SamplePasswords,
   firstname : {"", "Ann"}, lastname : {"Lee"}]
  \cup [password : SamplePasswords, firstname : {"Ann"}, lastname : {"Lee"}]

\* the values a part validated by an "accepts" schema may hold
RawValues == 0..MaxRaw

\* the schemas a validator is configured with, or none
SampleSchemas == {NoSchema} \cup {[kind |-> "accepts", accepts |-> S] : S \in SUBSET RawValues}

----------------------------------------------------------------------------
(* Idle values: a specification that exercises one part keeps the others   *)
(* at these.                                                                *)

RequestIds == 1..NumRequests

IdleRequest == [pc |-> "idle"]

ServerIdle ==
  /\ appliedUser = <<>>
  /\ reqs = [r \in RequestIds |-> IdleRequest]

ValidateIdle == vreq = [pc |-> "off"]

RefineIdle == rcall = [pc |-> "off"]

ParseIdle == pcall = [pc |-> "off"]

FormIdle == form = [pc |-> "off"]

----------------------------------------------------------------------------
(* One call of the refinement, on a supplied snapshot *)

RefineInit ==
  /\ ServerIdle
  /\ ValidateIdle
  /\ ParseIdle
  /\ FormIdle
  /\ \E committees \in CommitteeLists, committeeCountries \in RowLists,
        body \in ChoiceBodies :
       rcall = [pc |-> "called",
                params |-> [committees |-> committees,
                            committeeCountries |-> committeeCountries],
                body |-> body,
                issues |-> <<>>,
                chair |-> [pc |-> "called", issues |-> <<>>]]

\* the function of refineChairApply runs to its end on the chair body with
\* the same committee choices and the same committee list
ChairRun ==
  /\ rcall.chair.pc = "called"
  /\ rcall' = [rcall EXCEPT
                !.chair = [pc |-> "returned",
                           issues |-> RefineChairApply(
                                        [committees |-> rcall.params.committees],
                                        ChairBody(rcall.body))]]
  /\ UNCHANGED <<appliedUser, reqs, vreq, pcall, form>>

\* the async function runs to its end: every issue is added to ctx
RefineRun ==
  /\ rcall.pc = "called"
  /\ rcall' = [rcall EXCEPT !.pc = "returned",
                            !.issues = RefineDelegateApply(rcall.params, rcall.body)]
  /\ UNCHANGED <<appliedUser, reqs, vreq, pcall, form>>

RefineNext == RefineRun \/ ChairRun

SpecRefine == RefineInit /\ [][RefineNext]_vars

----------------------------------------------------------------------------
(* Refinements built from a provider function: one validation call of the   *)
(* delegate refinement and one of the chair refinement, in either order,    *)
(* and the delegate refinement built from the snapshot its call was given   *)

NotRun == [pc |-> "called", at |-> 0, issues |-> <<>>]

ProviderInit ==
  /\ ServerIdle
  /\ ValidateIdle
  /\ ParseIdle
  /\ FormIdle
  /\ \E params \in Providers, body \in ChoiceBodies :
       rcall = [pc |-> "provider", params |-> params, body |-> body, fetched |-> 0,
                delegate |-> NotRun, chair |-> NotRun, direct |-> NotRun]

\* a validation call of the delegate refinement built from the function
ProviderDelegateRun ==
  /\ rcall.pc = "provider"
  /\ rcall.delegate.pc = "called"
  /\ rcall' = [rcall EXCEPT
                !.fetched = RefineDelegateApplyCall(rcall.params, rcall.fetched,
                                                    rcall.body).fetched,
                !.delegate = [pc |-> "returned", at |-> rcall.fetched + 1,
                              issues |-> RefineDelegateApplyCall(
                                           rcall.params, rcall.fetched,
                                           rcall.body).issues]]
  /\ UNCHANGED <<appliedUser, reqs, vreq, pcall, form>>

\* a validation call of the chair refinement built from the function
ProviderChairRun ==
  /\ rcall.pc = "provider"
  /\ rcall.chair.pc = "called"
  /\ rcall' = [rcall EXCEPT
                !.fetched = RefineChairApplyCall(rcall.params, rcall.fetched,
                                                 ChairBody(rcall.body)).fetched,
                !.chair = [pc |-> "returned", at |-> rcall.fetched + 1,
                           issues |-> RefineChairApplyCall(
                                        rcall.params, rcall.fetched,
                                        ChairBody(rcall.body)).issues]]
  /\ UNCHANGED <<appliedUser, reqs, vreq, pcall, form>>

\* a validation call of the delegate refinement built from the snapshot the
\* function returned to the delegate call above
DirectRun ==
  /\ rcall.pc = "provider"
  /\ rcall.delegate.pc = "returned"
  /\ rcall.direct.pc = "called"
  /\ rcall' = [rcall EXCEPT
                !.fetched = RefineDelegateApplyCall(
                              rcall.params.returns[rcall.delegate.at],
                              rcall.fetched, rcall.body).fetched,
                !.direct = [pc |-> "returned", at |-> rcall.delegate.at,
                            issues |-> RefineDelegateApplyCall(
                                         rcall.params.returns[rcall.delegate.at],
                                         rcall.fetched, rcall.body).issues]]
  /\ UNCHANGED <<appliedUser, reqs, vreq, pcall, form>>

ProviderNext == ProviderDelegateRun \/ ProviderChairRun \/ DirectRun

SpecProvider == ProviderInit /\ [][ProviderNext]_vars

----------------------------------------------------------------------------
(* The delegate application form: the formik values and the options the     *)
(* last render gave the six select controls of the choices.                 *)

\* the props of the page: committees, and the countries of each committee
FormCommittees == [i \in 1..NumCommittees |-> [id |-> i - 1]]

FormCountries ==
  [i \in 1..2 * NumCommittees |->
     [committeeId |-> (i - 1) \div 2, country |-> IF i % 2 = 1 THEN "US" ELSE "FR"]]

\* useFormik initialValues, for the logged-in user 1
InitialValues ==
  [userId |-> 1, motivation |-> "", experience |-> "", delegationId |-> Null,
   choice1committee |-> -1, choice1country |-> "",
   choice2committee |-> -1, choice2country |-> "",
   choice3committee |-> -1, choice3country |-> "",
   shirtSize |-> Null]

\* a check that looks at the next slot only
checkShouldBeDisabledNext(values, committeeId, choiceId) ==
  values[CommitteePath((choiceId % 3) + 1)] = committeeId

\* checkShouldBeDisabled(committeeId, choiceId), on the values of the render
checkShouldBeDisabled(values, committeeId, choiceId) ==
  LET otherChoiceIds == {id \in {1, 2, 3} : id # choiceId}
      otherChoicesAreSame ==
        {values[CommitteePath(id)] = committeeId : id \in otherChoiceIds}
  IN TRUE \in otherChoicesAreSame

\* the options of the committee select of a slot
CommitteeOptions(values, choiceId) ==
  [i \in 1..Len(FormCommittees) |->
     [value |-> FormCommittees[i].id,
      isDisabled |-> checkShouldBeDisabled(values, FormCommittees[i].id, choiceId)]]

\* the options of the country select of a slot, and whether it is disabled
CountryOptions(values, committeeField) ==
  [options |-> [i \in 1..Len(RowsOfCommittee(FormCountries, values[committeeField])) |->
                  [value |-> RowsOfCommittee(FormCountries,
                                             values[committeeField])[i].country]],
   isDisabled |-> values[committeeField] = -1]

\* what a render shows for the values
Render(values) ==
  [pc |-> "editing",
   values |-> values,
   committee |-> [choiceId \in 1..3 |-> CommitteeOptions(values, choiceId)],
   country |-> <<CountryOptions(values, "choice1committee"),
                 CountryOptions(values, "choice2committee"),
                 CountryOptions(values, "choice3committee")>>]

FormInit ==
  /\ ServerIdle
  /\ ValidateIdle
  /\ RefineIdle
  /\ ParseIdle
  /\ form = Render(InitialValues)

\* onChange of a committee select with an option that is not disabled
SelectCommittee(choiceId, i) ==
  /\ form.pc = "editing"
  /\ ~form.committee[choiceId][i].isDisabled
  /\ form' = Render((CommitteePath(choiceId) :> form.committee[choiceId][i].value)
                      @@ form.values)
  /\ UNCHANGED <<appliedUser, reqs, vreq, rcall, pcall>>

\* onChange of a committee select with no option: option?.value ?? -1
ClearCommittee(choiceId) ==
  /\ form.pc = "editing"
  /\ form' = Render((CommitteePath(choiceId) :> -1) @@ form.values)
  /\ UNCHANGED <<appliedUser, reqs, vreq, rcall, pcall>>

\* onChange of a country select that is not disabled
SelectCountry(choiceId, i) ==
  /\ form.pc = "editing"
  /\ ~form.country[choiceId].isDisabled
  /\ i \in 1..Len(form.country[choiceId].options)
  /\ form' = Render((CountryPath(choiceId)
                        :> form.country[choiceId].options[i].value)
                      @@ form.values)
  /\ UNCHANGED <<appliedUser, reqs, vreq, rcall, pcall>>

FormNext ==
  \E choiceId \in 1..3 :
    \/ \E i \in 1..Len(FormCommittees) : SelectCommittee(choiceId, i)
    \/ ClearCommittee(choiceId)
    \/ \E i \in 1..Len(FormCountries) : SelectCountry(choiceId, i)

SpecForm == FormInit /\ [][FormNext]_vars

----------------------------------------------------------------------------
(* Submitting the form: handleSubmit validates the values and calls         *)
(* submitApplication, which runs up to its await of fetch, and later from   *)
(* the response or the thrown error to its end.  The form and its submit    *)
(* button are rendered whenever success is not true, also while loading.    *)

\* the props of the page, as the reference data of the form's validation
FormSnapshot == [committees |-> FormCommittees, committeeCountries |-> FormCountries]

\* forms filled in with three different committees and a country for each
FilledValues ==
  {[InitialValues EXCEPT !.motivation = BaseBody.motivation,
                         !.experience = BaseBody.experience,
                         !.choice1committee = c[1], !.choice1country = k[1],
                         !.choice2committee = c[2], !.choice2country = k[2],
                         !.choice3committee = c[3], !.choice3country = k[3]] :
     c \in {f \in [1..3 -> {FormCommittees[i].id : i \in 1..Len(FormCommittees)}] :
              \A i, j \in 1..3 : i # j => f[i] # f[j]},
     k \in [1..3 -> SampleCountries]}

\* the statuses fetch resolves with, and the error it rejects with
ResponseStatuses == {201, 403, 422, 500}

FetchError == Str("TypeError: Failed to fetch")

\* useState(false), useState(null), useState(null); no submission yet
SubmitInit ==
  /\ ServerIdle
  /\ ValidateIdle
  /\ RefineIdle
  /\ ParseIdle
  /\ \E values \in FilledValues \cup {InitialValues} :
       form = Render(values)
                @@ [loading |-> FALSE, error |-> Null, success |-> Null,
                    started |-> 0, pending |-> 0, responses |-> <<>>]

\* the submit button is pressed: the form is rendered, validate finds no
\* error, and submitApplication runs up to its await (lines 55-58)
SubmitStart ==
  /\ form.pc = "editing"
  /\ form.success # Bool(TRUE)
  /\ DelegateApplyRefined(FormSnapshot, form.values).success
  /\ form.started < MaxSubmissions
  /\ form' = [form EXCEPT !.loading = TRUE, !.error = Null, !.success = Null,
                          !.started = @ + 1, !.pending = @ + 1]
  /\ UNCHANGED <<appliedUser, reqs, vreq, rcall, pcall>>

\* fetch resolves for one of the submissions awaiting it (lines 67-74)
FetchResolves(status) ==
  /\ form.pc = "editing"
  /\ form.pending > 0
  /\ form' = [form EXCEPT
               !.loading = FALSE,
               !.success = IF status = 201 THEN Bool(TRUE) ELSE @,
               !.error = IF status = 201 THEN @ ELSE Str("An unknown error occured"),
               !.pending = @ - 1,
               !.responses = Append(@, status)]
  /\ UNCHANGED <<appliedUser, reqs, vreq, rcall, pcall>>

\* fetch rejects for one of the submissions awaiting it (lines 75-79)
FetchRejects ==
  /\ form.pc = "editing"
  /\ form.pending > 0
  /\ form' = [form EXCEPT !.error = FetchError, !.success = Bool(FALSE),
                          !.loading = FALSE, !.pending = @ - 1]
  /\ UNCHANGED <<appliedUser, reqs, vreq, rcall, pcall>>

SubmitNext ==
  \/ SubmitStart
  \/ \E status \in ResponseStatuses : FetchResolves(status)
  \/ FetchRejects

\* a submission may start while another awaits its response
SpecSubmit == SubmitInit /\ [][SubmitNext]_vars

----------------------------------------------------------------------------
(* The form's validate function: one input parsed against one snapshot,     *)
(* parsed a second time, and its output parsed again                        *)

\* the value of a result field before its call
NoResult == [success |-> FALSE, error |-> [issues |-> <<>>]]

DbSnapshot == [committees |-> DbCommittees, committeeCountries |-> DbCommitteeCountries]

ParseInit ==
  /\ ServerIdle
  /\ ValidateIdle
  /\ RefineIdle
  /\ FormIdle
  /\ \E params \in [committees : CommitteeLists, committeeCountries : RowLists]
                     \cup {DbSnapshot},
        raw \in TypedBodies \cup ShapeBodies :
       /\ raw \in ShapeBodies => params = DbSnapshot
       /\ pcall = [pc |-> "called", params |-> params, raw |-> raw,
                   result |-> NoResult, again |-> NoResult, reparse |-> NoResult,
                   calls |-> {}]

\* safeParseAsync(values) resolves
ParseCall ==
  /\ pcall.pc = "called"
  /\ pcall' = [pcall EXCEPT !.pc = "returned",
                            !.result = DelegateApplyRefined(pcall.params, pcall.raw),
                            !.calls = @ \cup {"first"}]
  /\ UNCHANGED <<appliedUser, reqs, vreq, rcall, form>>

\* the same values are validated once more
ParseCallAgain ==
  /\ pcall.pc = "returned"
  /\ "again" \notin pcall.calls
  /\ pcall' = [pcall EXCEPT !.again = DelegateApplyRefined(pcall.params, pcall.raw),
                            !.calls = @ \cup {"again"}]
  /\ UNCHANGED <<appliedUser, reqs, vreq, rcall, form>>

\* the accepted output is validated in its turn
ParseOutput ==
  /\ pcall.pc = "returned"
  /\ pcall.result.success
  /\ "output" \notin pcall.calls
  /\ pcall' = [pcall EXCEPT !.reparse = DelegateApplyRefined(pcall.params,
                                                              pcall.result.data),
                            !.calls = @ \cup {"output"}]
  /\ UNCHANGED <<appliedUser, reqs, vreq, rcall, form>>

ParseNext == ParseCall \/ ParseCallAgain \/ ParseOutput

SpecParse == ParseInit /\ [][ParseNext]_vars

----------------------------------------------------------------------------
(* One signup parsed by SignupSchema *)

SignupInit ==
  /\ ServerIdle
  /\ ValidateIdle
  /\ RefineIdle
  /\ FormIdle
  /\ \E raw \in SignupBodies :
       pcall = [pc |-> "called", raw |-> raw, result |-> NoResult]

SignupCall ==
  /\ pcall.pc = "called"
  /\ pcall' = [pcall EXCEPT !.pc = "returned", !.result = SignupSchema(pcall.raw)]
  /\ UNCHANGED <<appliedUser, reqs, vreq, rcall, form>>

SignupNext == SignupCall

SpecSignup == SignupInit /\ [][SignupNext]_vars

----------------------------------------------------------------------------
(* handler.put(authAPI, validate({body: DelegateApply, async: true}), ...)  *)
(* A request is idle until it arrives; it then runs the validator and the   *)
(* handler up to the handler's first await, and later resumes once per      *)
(* database call.                                                           *)

\* the configuration handler.put passes to validate
PutValidate == [body |-> DelegateApplySchema, query |-> NoSchema, async |-> TRUE]

\* findFirst without its where clause: any record is found
FindFirstAnyUser(table, userId) == table # <<>>

\* db.appliedUser.findFirst({where: {userId}}), as the truth value tested
FindFirst(table, userId) == \E i \in 1..Len(table) : table[i].userId = userId

\* the data with the application spread last, over the two fixed fields
CreateDataSpreadLast(application, user) ==
  [f \in DOMAIN application \cup {"userId", "paymentStatus"} |->
     IF f \in DOMAIN application THEN application[f]
     ELSE IF f = "userId" THEN user.id
     ELSE "pending"]

\* the data of db.appliedUser.create:
\* {...application, userId: req.user.id, paymentStatus: "pending"}
CreateData(application, user) ==
  [f \in DOMAIN application \cup {"userId", "paymentStatus"} |->
     CASE f = "userId" -> user.id
       [] f = "paymentStatus" -> "pending"
       [] OTHER -> application[f]]

\* lines 75-94: authAPI has run; the validator parses the body and answers
\* 422 or calls next; the handler reads req.body, answers 500 to a request
\* that is not populated, and otherwise awaits findFirst
Receive(r, auth, raw) ==
  /\ reqs[r].pc = "idle"
  /\ LET v == Validate(PutValidate, [body |-> raw, query |-> <<>>])
         arrived == [pc |-> "done", auth |-> auth, raw |-> raw,
                     nextCalls |-> v.nextCalls, refineCalls |-> 0,
                     lookups |-> 0, writes |-> 0, status |-> 0]
     IN reqs' = [reqs EXCEPT ![r] =
          IF v.nextCalls = 0
            THEN [arrived EXCEPT !.status = v.responses[1].status]
          ELSE IF ~auth.populated
            THEN [application |-> v.req.body] @@ [arrived EXCEPT !.status = 500]
          ELSE [application |-> v.req.body] @@ [arrived EXCEPT !.pc = "findFirst"]]
  /\ UNCHANGED <<appliedUser, vreq, rcall, pcall, form>>

\* the lookup step with the 403 branch falling through to the create
LookupNoReturn(r) ==
  /\ reqs[r].pc = "findFirst"
  /\ LET existingApplication == FindFirst(appliedUser, reqs[r].auth.user.id)
     IN /\ reqs' = [reqs EXCEPT ![r] =
             IF existingApplication
               THEN [@ EXCEPT !.pc = "done", !.status = 403, !.lookups = @ + 1,
                              !.writes = @ + 1]
               ELSE [@ EXCEPT !.pc = "create", !.lookups = @ + 1]]
        /\ appliedUser' =
             IF existingApplication
               THEN Append(appliedUser,
                           CreateData(reqs[r].application, reqs[r].auth.user))
               ELSE appliedUser
  /\ UNCHANGED <<vreq, rcall, pcall, form>>

\* lines 90-102: findFirst reads the table; the handler answers 403 when the
\* user has a record, and otherwise awaits create
Lookup(r) ==
  /\ reqs[r].pc = "findFirst"
  /\ LET existingApplication == FindFirst(appliedUser, reqs[r].auth.user.id)
     IN reqs' = [reqs EXCEPT ![r] =
          IF existingApplication
            THEN [@ EXCEPT !.pc = "done", !.status = 403, !.lookups = @ + 1]
            ELSE [@ EXCEPT !.pc = "create", !.lookups = @ + 1]]
  /\ UNCHANGED <<appliedUser, vreq, rcall, pcall, form>>

\* lines 106-120: create adds the record; the handler answers 201
Create(r) ==
  /\ reqs[r].pc = "create"
  /\ appliedUser' =
       Append(appliedUser, CreateData(reqs[r].application, reqs[r].auth.user))
  /\ reqs' = [reqs EXCEPT ![r] =
       [@ EXCEPT !.pc = "done", !.status = 201, !.writes = @ + 1]]
  /\ UNCHANGED <<vreq, rcall, pcall, form>>

Init ==
  /\ ServerIdle
  /\ ValidateIdle
  /\ RefineIdle
  /\ ParseIdle
  /\ FormIdle

Next ==
  \E r \in RequestIds :
    \/ \E auth \in Auths, raw \in PutBodies : Receive(r, auth, raw)
    \/ Lookup(r)
    \/ Create(r)

\* requests arrive at any time: handlers interleave at their awaits
Spec == Init /\ [][Next]_vars

\* no handler is between its arrival and its answer
Quiet == \A r \in RequestIds : reqs[r].pc \in {"idle", "done"}

NextSeq ==
  \E r \in RequestIds :
    \/ \E auth \in Auths, raw \in PutBodies : Quiet /\ Receive(r, auth, raw)
    \/ Lookup(r)
    \/ Create(r)

\* sequential use: a request arrives only when every other one is answered
SpecSeq == Init /\ [][NextSeq]_vars

----------------------------------------------------------------------------
(* One request through a validator built from any two sample schemas *)

ValidateInit ==
  /\ ServerIdle
  /\ RefineIdle
  /\ ParseIdle
  /\ FormIdle
  /\ \E body \in SampleSchemas, query \in SampleSchemas,
        rawBody \in RawValues, rawQuery \in RawValues :
       vreq = [pc |-> "received",
               cfg |-> [body |-> body, query |-> query],
               req |-> [body |-> rawBody, query |-> rawQuery],
               nextCalls |-> 0,
               responses |-> <<>>]

\* next-connect runs the middleware on the request
ValidateRun ==
  /\ vreq.pc = "received"
  /\ LET v == Validate(vreq.cfg, vreq.req)
     IN vreq' = [vreq EXCEPT !.pc = "returned",
                             !.req = v.req,
                             !.nextCalls = v.nextCalls,
                             !.responses = v.responses]
  /\ UNCHANGED <<appliedUser, reqs, rcall, pcall, form>>

ValidateNext == ValidateRun

SpecValidate == ValidateInit /\ [][ValidateNext]_vars

\* a supplied schema rejects its part
Rejects(schema, raw) == schema # NoSchema /\ raw \notin schema.accepts

BodyRejected == Rejects(vreq.cfg.body, vreq.req.body)

QueryRejected == Rejects(vreq.cfg.query, vreq.req.query)

\* C5: the validator calls next once and sends nothing when no supplied
\* schema rejects its part (a part without a schema is never validated), and
\* otherwise sends the one response {statusCode: 422, message: "Bad Request",
\* description: <reports>} with status 422 and does not call next.
C5_NextOr422 ==
  /\ vreq.pc = "received" => vreq.nextCalls = 0 /\ vreq.responses = <<>>
  /\ vreq.pc = "returned" =>
       IF ~BodyRejected /\ ~QueryRejected
         THEN vreq.nextCalls = 1 /\ vreq.responses = <<>>
         ELSE /\ vreq.nextCalls = 0
              /\ Len(vreq.responses) = 1
              /\ vreq.responses[1].status = 422
              /\ DOMAIN vreq.responses[1].json
                   = {"statusCode", "message", "description"}
              /\ vreq.responses[1].json.statusCode = 422
              /\ vreq.responses[1].json.message = "Bad Request"
              /\ Len(vreq.responses[1].json.description) >= 1

\* a request rejected by the query schema of a validator without body schema
C5_Witness ==
  /\ vreq.pc = "returned"
  /\ vreq.cfg.body = NoSchema
  /\ QueryRejected
  /\ Len(vreq.responses) = 1

\* the report a schema gives for a value it rejects
Report(schema, raw) == SafeParse(schema, raw).error

\* C6: the 422 description holds exactly one report for each part that
\* failed, the body's before the query's: both fail, two reports; only the
\* query fails, the query's report alone.
C6_IndependentParts ==
  (vreq.pc = "returned" /\ (BodyRejected \/ QueryRejected)) =>
    /\ Len(vreq.responses) = 1
    /\ vreq.responses[1].json.description
         = (IF BodyRejected
              THEN <<Report(vreq.cfg.body, vreq.req.body)>> ELSE <<>>)
           \o (IF QueryRejected
                 THEN <<Report(vreq.cfg.query, vreq.req.query)>> ELSE <<>>)

\* a request whose body and query both fail, with different reports
C6_Witness ==
  /\ vreq.pc = "returned"
  /\ BodyRejected
  /\ QueryRejected
  /\ Len(vreq.responses) = 1
  /\ Len(vreq.responses[1].json.description) = 2
  /\ vreq.responses[1].json.description[1] # vreq.responses[1].json.description[2]

----------------------------------------------------------------------------
(* Properties of the refinement (SpecRefine) *)

\* the issues of a report that are attached to a field
IssuesOn(issues, path) == {i \in 1..Len(issues) : issues[i].path = path}

SuppliedIds(params) == {c.id : c \in Range(params.committees)}

ScopedRows(params, id) ==
  {i \in 1..Len(params.committeeCountries) :
     params.committeeCountries[i].committeeId = id}

RowExists(params, id, country) ==
  \E i \in ScopedRows(params, id) : params.committeeCountries[i].country = country

\* C9: when the committee id of slot k is not the id of a supplied committee,
\* the refinement reports one reference error on choice<k>committee whose
\* options are the ids of all supplied committees, and reports nothing on
\* choice<k>country, whatever the slot's country is.
C9_MissingCommittee ==
  rcall.pc = "returned" =>
    \A k \in 1..3 :
      SlotCommittee(rcall.body, k) \notin SuppliedIds(rcall.params) =>
        /\ Cardinality(IssuesOn(rcall.issues, CommitteePath(k))) = 1
        /\ \A i \in IssuesOn(rcall.issues, CommitteePath(k)) :
             /\ rcall.issues[i].code = "invalid_enum_value"
             /\ Len(rcall.issues[i].options) = Len(rcall.params.committees)
             /\ Range(rcall.issues[i].options) = SuppliedIds(rcall.params)
        /\ IssuesOn(rcall.issues, CountryPath(k)) = {}

\* a call whose first committee is missing from a non-empty list and whose
\* first country matches no row either
C9_Witness ==
  /\ rcall.pc = "returned"
  /\ rcall.params.committees # <<>>
  /\ rcall.body.choice1committee \notin SuppliedIds(rcall.params)
  /\ ~RowExists(rcall.params, rcall.body.choice1committee, rcall.body.choice1country)
  /\ IssuesOn(rcall.issues, "choice1committee") # {}

\* C10: when the committee of slot k exists and no row pairs it with the
\* slot's country, the refinement reports one reference error on
\* choice<k>country whose options are exactly the countries of the rows of
\* that committee; when such a row exists, nothing is reported on
\* choice<k>country.
C10_WrongCountry ==
  rcall.pc = "returned" =>
    \A k \in 1..3 :
      LET id == SlotCommittee(rcall.body, k)
          country == SlotCountry(rcall.body, k)
          on == IssuesOn(rcall.issues, CountryPath(k))
      IN /\ (id \in SuppliedIds(rcall.params) /\ ~RowExists(rcall.params, id, country)) =>
              /\ Cardinality(on) = 1
              /\ \A i \in on :
                   /\ rcall.issues[i].code = "invalid_enum_value"
                   /\ Len(rcall.issues[i].options)
                        = Cardinality(ScopedRows(rcall.params, id))
                   /\ Range(rcall.issues[i].options)
                        = {rcall.params.committeeCountries[j].country :
                             j \in ScopedRows(rcall.params, id)}
         /\ RowExists(rcall.params, id, country) => on = {}

\* a call whose first committee exists, has a row of its own, shares the list
\* with a row of another committee, and is paired with a country it lacks
C10_Witness ==
  /\ rcall.pc = "returned"
  /\ rcall.body.choice1committee \in SuppliedIds(rcall.params)
  /\ ~RowExists(rcall.params, rcall.body.choice1committee, rcall.body.choice1country)
  /\ ScopedRows(rcall.params, rcall.body.choice1committee) # {}
  /\ \E i \in 1..Len(rcall.params.committeeCountries) :
       rcall.params.committeeCountries[i].committeeId # rcall.body.choice1committee
  /\ IssuesOn(rcall.issues, "choice1country") # {}

----------------------------------------------------------------------------
(* Properties of the PUT handler (Spec, SpecSeq) *)

\* the positions in the table of the records of a user
RecordsOf(table, userId) == {i \in 1..Len(table) : table[i].userId = userId}

\* the requests that have arrived
Arrived == {r \in RequestIds : reqs[r].pc # "idle"}

\* the requests answered with a status
AnsweredWith(status) == {r \in Arrived : reqs[r].status = status}

\* C1: after any interleaving of PUT requests, the table holds at most one
\* record for each user id.
C1_OneApplicationPerUser ==
  \A u \in UserIds : Cardinality(RecordsOf(appliedUser, u)) <= 1

\* a record meets the reference invariant: each committee is in the committee
\* table and each (committee, country) pair is a row of that committee
ReferencesResolve(record) ==
  \A k \in 1..3 :
    /\ \E i \in 1..Len(DbCommittees) : DbCommittees[i].id = SlotCommittee(record, k)
    /\ \E i \in 1..Len(DbCommitteeCountries) :
         /\ DbCommitteeCountries[i].committeeId = SlotCommittee(record, k)
         /\ DbCommitteeCountries[i].country = SlotCountry(record, k)

\* C2: every record the PUT handler persists meets the reference invariant.
C2_PersistedReferencesResolve ==
  \A i \in 1..Len(appliedUser) : ReferencesResolve(appliedUser[i])

\* C3: a validator configured with the async flag calls next only after the
\* schema's asynchronous refinement has run for the request and accepted it.
C3_NextAfterAsyncCheck ==
  PutValidate.async =>
    \A r \in Arrived :
      reqs[r].nextCalls > 0 =>
        /\ reqs[r].refineCalls >= 1
        /\ RefineDelegateApply([committees |-> DbCommittees,
                                committeeCountries |-> DbCommitteeCountries],
                               reqs[r].raw) = <<>>

\* C4: the body the handler reads after the validator accepted is the
\* schema's output, so a delegationId of -1 is seen and persisted as null.
C4_HandlerReadsParsedBody ==
  /\ \A r \in Arrived :
       "application" \in DOMAIN reqs[r] =>
         reqs[r].application = DelegateApply(reqs[r].raw).data
  /\ \A i \in 1..Len(appliedUser) : appliedUser[i].delegationId # Num(-1)

\* C7: a request answered 422, 500 or 403 has written nothing, and the table
\* holds one record per request answered 201 and no other; a request
\* answered 422 never entered the handler: no body read, no lookup, no write.
C7_NoPartialPersistence ==
  /\ \A r \in Arrived :
       (reqs[r].pc = "done" /\ reqs[r].status # 201) =>
         /\ reqs[r].status \in {422, 500, 403}
         /\ reqs[r].writes = 0
  /\ \A r \in AnsweredWith(422) :
       /\ reqs[r].nextCalls = 0
       /\ reqs[r].lookups = 0
       /\ "application" \notin DOMAIN reqs[r]
  /\ Len(appliedUser) = Cardinality(AnsweredWith(201))

\* one request was answered 403 after another was answered 201, and the
\* table holds the one record
C7_Witness ==
  /\ AnsweredWith(403) # {}
  /\ AnsweredWith(201) # {}
  /\ Len(appliedUser) = 1

\* the step answers request r, which passed the validator with a user
AnswersUser(r) ==
  /\ reqs[r].pc # "done"
  /\ reqs'[r].pc = "done"
  /\ reqs'[r].nextCalls = 1
  /\ reqs'[r].auth.populated

\* C8: in sequential use a PUT that reaches the handler's lookup (lines
\* 90-120: its body passed the validator and it carries a user) is answered
\* 201 and adds exactly one record, of that user, when the user has no
\* record; it is answered 403 and adds none when the user has one; no record
\* is ever replaced or removed.
C8_CreatedOnceThenForbidden ==
  [][/\ \A i \in 1..Len(appliedUser) :
          i <= Len(appliedUser') /\ appliedUser'[i] = appliedUser[i]
     /\ \A r \in RequestIds :
          AnswersUser(r) =>
            IF RecordsOf(appliedUser, reqs'[r].auth.user.id) # {}
              THEN reqs'[r].status = 403 /\ appliedUser' = appliedUser
              ELSE /\ reqs'[r].status = 201
                   /\ Len(appliedUser') = Len(appliedUser) + 1
                   /\ Cardinality(RecordsOf(appliedUser', reqs'[r].auth.user.id)) = 1
    ]_vars

\* a user was answered 201 and then 403, and the table holds the user's one
\* record
C8_Witness ==
  \E r, q \in Arrived :
    /\ reqs[r].status = 201
    /\ reqs[q].status = 403
    /\ reqs[r].auth.user.id = reqs[q].auth.user.id
    /\ Cardinality(RecordsOf(appliedUser, reqs[r].auth.user.id)) = 1

\* the issues of a report that belong to slot k
SlotReport(issues, k) ==
  {issues[i] : i \in IssuesOn(issues, CommitteePath(k))
                       \cup IssuesOn(issues, CountryPath(k))}

\* two bodies agree on slot k
SameSlot(a, b, k) ==
  /\ SlotCommittee(a, k) = SlotCommittee(b, k)
  /\ SlotCountry(a, k) = SlotCountry(b, k)

\* C11: the three slots are checked independently and their errors are
\* aggregated in one report: what is reported for slot k is what is reported
\* for it in any submission with the same slot k, whatever the other slots
\* hold, and the report holds the errors of the three slots and nothing else.
C11_SlotsIndependent ==
  rcall.pc = "returned" =>
    /\ \A k \in 1..3 :
         \A other \in ChoiceBodies :
           SameSlot(other, rcall.body, k) =>
             SlotReport(RefineDelegateApply(rcall.params, other), k)
               = SlotReport(rcall.issues, k)
    /\ Range(rcall.issues)
         = SlotReport(rcall.issues, 1) \cup SlotReport(rcall.issues, 2)
             \cup SlotReport(rcall.issues, 3)
    /\ Len(rcall.issues)
         = Cardinality(SlotReport(rcall.issues, 1))
             + Cardinality(SlotReport(rcall.issues, 2))
             + Cardinality(SlotReport(rcall.issues, 3))

\* a report with a committee error for the first slot and a country error
\* for the second, the third slot being legal
C11_Witness ==
  /\ rcall.pc = "returned"
  /\ IssuesOn(rcall.issues, "choice1committee") # {}
  /\ IssuesOn(rcall.issues, "choice2country") # {}
  /\ SlotReport(rcall.issues, 3) = {}
  /\ Len(rcall.issues) = 2

----------------------------------------------------------------------------
(* Properties of the refined DelegateApply parse *)

\* every field of the input is present and within the bounds of its constraint
ShapeOk(raw) ==
  /\ Range(DelegateFields) \subseteq DOMAIN raw
  /\ \A f \in {"motivation", "experience"} :
       Len(raw[f]) >= 10 /\ Len(raw[f]) <= 4000
  /\ raw.delegationId.type \in {"null", "number"}
  /\ \A k \in 1..3 : SlotCommittee(raw, k) >= 0 /\ Len(SlotCountry(raw, k)) >= 2
  /\ raw.shirtSize.type = "null"
       \/ (raw.shirtSize.type = "string"
             /\ raw.shirtSize.value \in {"XS", "S", "M", "L", "XL", "XXL"})

\* the input with a delegationId of -1 replaced by null
Normalized(raw) ==
  [f \in DOMAIN raw |->
     IF f = "delegationId" /\ raw[f] = Num(-1) THEN Null ELSE raw[f]]

\* C12: an input whose every field satisfies its shape constraint is accepted
\* if and only if each of its three committee ids is the id of a committee of
\* the snapshot and each of its three (committee, country) pairs is a row of
\* the committee-country snapshot; the accepted output is the input with a
\* delegationId of -1 replaced by null.
C12_Acceptance ==
  (pcall.pc = "returned" /\ ShapeOk(pcall.raw)) =>
    /\ pcall.result.success <=>
         \A k \in 1..3 :
           /\ SlotCommittee(pcall.raw, k) \in SuppliedIds(pcall.params)
           /\ RowExists(pcall.params, SlotCommittee(pcall.raw, k),
                        SlotCountry(pcall.raw, k))
    /\ pcall.result.success => pcall.result.data = Normalized(pcall.raw)

\* an accepted input that came without a delegation
C12_Witness ==
  /\ pcall.pc = "returned"
  /\ ShapeOk(pcall.raw)
  /\ pcall.result.success
  /\ pcall.raw.delegationId = Num(-1)
  /\ pcall.result.data.delegationId = Null

\* the fields of an input that are missing or break a bound
Offending(raw) ==
  {f \in Range(DelegateFields) :
     \/ f \notin DOMAIN raw
     \/ /\ f \in {"motivation", "experience"}
        /\ Len(raw[f]) < 10 \/ Len(raw[f]) > 4000
     \/ /\ f \in {"choice1committee", "choice2committee", "choice3committee"}
        /\ raw[f] < 0
     \/ /\ f \in {"choice1country", "choice2country", "choice3country"}
        /\ Len(raw[f]) < 2
     \/ /\ f = "shirtSize"
        /\ raw[f].type # "null"
        /\ raw[f].value \notin {"XS", "S", "M", "L", "XL", "XXL"}}

\* C13: an input that misses a required field or breaks a bound of a field is
\* rejected, and the report has an error entry on every such field, so the
\* shape errors of several fields are reported together.
C13_ShapeRejection ==
  (pcall.pc = "returned" /\ Offending(pcall.raw) # {}) =>
    /\ ~pcall.result.success
    /\ \A f \in Offending(pcall.raw) :
         IssuesOn(pcall.result.error.issues, f) # {}

\* a missing committee and an experience beyond the maximum, both reported
C13_Witness ==
  /\ pcall.pc = "returned"
  /\ "choice1committee" \notin DOMAIN pcall.raw
  /\ "experience" \in DOMAIN pcall.raw
  /\ Len(pcall.raw.experience) = 4001
  /\ Offending(pcall.raw) = {"choice1committee", "experience"}
  /\ IssuesOn(pcall.result.error.issues, "choice1committee") # {}
  /\ IssuesOn(pcall.result.error.issues, "experience") # {}

----------------------------------------------------------------------------
(* Properties of SignupSchema *)

\* the issues of a parse result
ResultIssues(result) == IF result.success THEN <<>> ELSE result.error.issues

\* C14: for a signup whose other fields are valid, there is a length error on
\* password exactly when the password has fewer than 8 characters, and a
\* "Passwords do not match" error, attached to passwordConfirm and never to
\* password, exactly when the two differ; equal short passwords give the
\* length error only and differing passwords of 8 or more characters give the
\* mismatch error only.
C14_PasswordRules ==
  (/\ pcall.pc = "returned"
   /\ Range(SignupFields) \subseteq DOMAIN pcall.raw
   /\ pcall.raw.firstname # ""
   /\ pcall.raw.lastname # "") =>
    LET issues == ResultIssues(pcall.result)
        length == {i \in IssuesOn(issues, "password") : issues[i].code = "too_small"}
        mismatch == {i \in 1..Len(issues) : issues[i].message = "Passwords do not match"}
    IN /\ length # {} <=> Len(pcall.raw.password) < 8
       /\ mismatch # {} <=> pcall.raw.password # pcall.raw.passwordConfirm
       /\ mismatch \subseteq IssuesOn(issues, "passwordConfirm")
       /\ length \cup mismatch = 1..Len(issues)
       /\ Cardinality(length) <= 1 /\ Cardinality(mismatch) <= 1

\* passwords of sufficient length that differ, rejected on passwordConfirm only
C14_Witness ==
  /\ pcall.pc = "returned"
  /\ "passwordConfirm" \in DOMAIN pcall.raw
  /\ pcall.raw.password = "longenough1"
  /\ pcall.raw.passwordConfirm = "different1"
  /\ pcall.raw.firstname = "Ann"
  /\ ~pcall.result.success
  /\ Len(pcall.result.error.issues) = 1
  /\ pcall.result.error.issues[1].path = "passwordConfirm"

----------------------------------------------------------------------------
(* Properties of the chair refinement and of provider functions *)

\* the issues of a report on a field, as a set
ReportOn(issues, path) == {issues[i] : i \in IssuesOn(issues, path)}

\* C16: the chair refinement checks committee existence only: on each of the
\* three committee fields it reports what the delegate refinement reports for
\* the same committee ids and committee list, every issue it reports is on a
\* committee field, and it reports nothing on a country field.
C16_ChairCommitteesOnly ==
  (rcall.pc = "returned" /\ rcall.chair.pc = "returned") =>
    /\ \A k \in 1..3 :
         /\ ReportOn(rcall.chair.issues, CommitteePath(k))
              = ReportOn(rcall.issues, CommitteePath(k))
         /\ Cardinality(IssuesOn(rcall.chair.issues, CommitteePath(k)))
              = Cardinality(IssuesOn(rcall.issues, CommitteePath(k)))
         /\ ReportOn(rcall.chair.issues, CountryPath(k)) = {}
    /\ \A i \in 1..Len(rcall.chair.issues) :
         rcall.chair.issues[i].path \in {CommitteePath(k) : k \in 1..3}

\* the third committee is unknown and the first country is illegal: the chair
\* refinement reports the committee and nothing else
C16_Witness ==
  /\ rcall.pc = "returned"
  /\ rcall.chair.pc = "returned"
  /\ IssuesOn(rcall.issues, "choice1country") # {}
  /\ IssuesOn(rcall.issues, "choice3committee") # {}
  /\ Len(rcall.chair.issues) = 1
  /\ rcall.chair.issues[1].path = "choice3committee"

\* the validation calls of a provider run that have returned
Returned == {c \in ProviderCalls : rcall[c].pc = "returned"}

\* C17: a refinement built from a provider function calls the function once
\* per validation call, checks all three slots against the snapshot that
\* call returned, and reports what the refinement built from that snapshot
\* reports.
C17_ProviderOnce ==
  rcall.pc = "provider" =>
    /\ rcall.fetched = Cardinality(Returned)
    /\ rcall.delegate.pc = "returned" =>
         /\ \A k \in 1..3 :
              LET id == SlotCommittee(rcall.body, k)
                  snapshot == rcall.params.returns[rcall.delegate.at]
              IN /\ IssuesOn(rcall.delegate.issues, CommitteePath(k)) # {}
                      <=> id \notin SuppliedIds(snapshot)
                 /\ IssuesOn(rcall.delegate.issues, CountryPath(k)) # {}
                      <=> /\ id \in SuppliedIds(snapshot)
                          /\ ~RowExists(snapshot, id, SlotCountry(rcall.body, k))
         /\ rcall.direct.pc = "returned" => rcall.direct.issues = rcall.delegate.issues
    /\ rcall.chair.pc = "returned" =>
         \A k \in 1..3 :
           IssuesOn(rcall.chair.issues, CommitteePath(k)) # {}
             <=> SlotCommittee(rcall.body, k)
                   \notin SuppliedIds(rcall.params.returns[rcall.chair.at])

\* a provider whose second call returns other data than its first: the
\* delegate call, made first, reported against the first snapshot, and the
\* refinement built from that snapshot reported the same
C17_Witness ==
  /\ rcall.pc = "provider"
  /\ rcall.params.returns[1] # rcall.params.returns[2]
  /\ rcall.delegate.pc = "returned"
  /\ rcall.delegate.at = 1
  /\ rcall.chair.pc = "returned"
  /\ rcall.direct.pc = "returned"
  /\ rcall.fetched = 2
  /\ rcall.delegate.issues # <<>>
  /\ rcall.delegate.issues # RefineDelegateApply(rcall.params.returns[2], rcall.body)

----------------------------------------------------------------------------
(* Properties of the records PUT creates *)

\* the body names one committee in two or three slots
RepeatsCommittee(body) ==
  \E j, k \in 1..3 : j # k /\ SlotCommittee(body, j) = SlotCommittee(body, k)

\* the requests whose body repeats an existing committee, with a legal
\* country in every slot
RepeatingRequests ==
  {r \in Arrived : /\ ShapeOk(reqs[r].raw)
                   /\ RepeatsCommittee(reqs[r].raw)
                   /\ ReferencesResolve(reqs[r].raw)}

\* C18: a submission that names the same existing committee in two or three
\* slots, with a legal country for each, passes the request validator, gets
\* no error from the refinement on the database's tables, and, when its
\* handler reaches the create, is stored with the choices it named.
C18_RepeatedCommitteeAccepted ==
  \A r \in RepeatingRequests :
    /\ reqs[r].nextCalls = 1
    /\ reqs[r].status # 422
    /\ RefineDelegateApply(DbSnapshot, reqs[r].application) = <<>>
    /\ reqs[r].status = 201 =>
         \E i \in RecordsOf(appliedUser, reqs[r].auth.user.id) :
           \A k \in 1..3 :
             /\ SlotCommittee(appliedUser[i], k) = SlotCommittee(reqs[r].raw, k)
             /\ SlotCountry(appliedUser[i], k) = SlotCountry(reqs[r].raw, k)

\* a request naming committee 0 twice was answered 201 and its record names
\* committee 0 twice
C18_Witness ==
  \E r \in RepeatingRequests :
    /\ reqs[r].status = 201
    /\ \E i \in RecordsOf(appliedUser, reqs[r].auth.user.id) :
         /\ appliedUser[i].choice1committee = appliedUser[i].choice2committee
         /\ ReferencesResolve(appliedUser[i])

\* C20: the record a create adds carries the id of the request's
\* authenticated user and the payment status "pending", whatever the body
\* carries in userId and paymentStatus; so does every record of the table.
C20_OwnerAndStatusFixed ==
  [][/\ \A r \in RequestIds :
          (reqs[r].pc = "create" /\ reqs'[r].pc = "done") =>
            /\ Len(appliedUser') = Len(appliedUser) + 1
            /\ appliedUser'[Len(appliedUser')].userId = reqs[r].auth.user.id
            /\ appliedUser'[Len(appliedUser')].paymentStatus = "pending"
     /\ \A i \in 1..Len(appliedUser') :
          /\ appliedUser'[i].paymentStatus = "pending"
          /\ \E r \in AnsweredWith(201)' : reqs'[r].auth.user.id = appliedUser'[i].userId
    ]_vars

\* user 1 sent a body with the id of user 2 and the status "paid", and the
\* record created is user 1's and pending
C20_Witness ==
  \E r \in AnsweredWith(201) :
    /\ "paymentStatus" \in DOMAIN reqs[r].raw
    /\ reqs[r].raw.paymentStatus = "paid"
    /\ reqs[r].raw.userId = 2
    /\ reqs[r].auth.user.id = 1
    /\ RecordsOf(appliedUser, 1) # {}
    /\ RecordsOf(appliedUser, 2) = {}
    /\ \A i \in 1..Len(appliedUser) : appliedUser[i].paymentStatus = "pending"

----------------------------------------------------------------------------
(* Properties of the application form *)

\* C19: from three unselected slots, after any selections and clearings made
\* through the committee selects, no two slots hold the same selected
\* committee, and an option is shown disabled in slot k exactly when one of
\* the two other slots holds its committee.
C19_DistinctCommittees ==
  form.pc = "editing" =>
    /\ \A j, k \in 1..3 :
         (j # k /\ SlotCommittee(form.values, j) # -1) =>
           SlotCommittee(form.values, j) # SlotCommittee(form.values, k)
    /\ \A k \in 1..3 : \A i \in 1..Len(form.committee[k]) :
         form.committee[k][i].isDisabled
           <=> \E j \in 1..3 \ {k} :
                 SlotCommittee(form.values, j) = form.committee[k][i].value

\* three different committees are selected, and each slot shows the two
\* committees of the other slots disabled
C19_Witness ==
  /\ form.pc = "editing"
  /\ \A k \in 1..3 :
       /\ SlotCommittee(form.values, k) # -1
       /\ Cardinality({i \in 1..Len(form.committee[k]) :
                         form.committee[k][i].isDisabled}) = 2

----------------------------------------------------------------------------
(* Properties of the form's submit state *)

\* C21: success = true and a non-null error never hold together, also when a
\* submission starts while another awaits its response; and once every
\* started submission has completed, loading is false and success is true
\* only if a response had status 201.
C21_SubmitState ==
  (form.pc = "editing" /\ "started" \in DOMAIN form) =>
    /\ ~(form.success = Bool(TRUE) /\ form.error # Null)
    /\ (form.started > 0 /\ form.pending = 0) =>
         /\ form.loading = FALSE
         /\ form.success = Bool(TRUE) => 201 \in Range(form.responses)

====
